---- MODULE Spec2Model ----
(***************************************************************************)
(* Model of the Slack authorization provider (src/auth/SlackAuthProvider.ts) *)
(* as a state machine: the in-memory client registry and session store,     *)
(* the registry file with its asynchronous writes, and the authorize and    *)
(* handleCallback handlers split at their await points.                     *)
(***************************************************************************)
EXTENDS Integers, Sequences, FiniteSets, TLC

(* ------------------------------ bounds -------------------------------- *)

\* requests served in a run (registerClient, authorize and handleCallback
\* calls) plus provider restarts
MaxCalls == 3
\* distinct values crypto.randomBytes(32) yields in a run
MaxStates == 2

(* ------------------------------ values -------------------------------- *)

StateNames == <<"s1", "s2", "s3", "s4", "s5", "s6">>

\* the values of crypto.randomBytes(32).toString('hex')
States == {StateNames[i] : i \in 1..MaxStates}

\* the state parameters the Slack installer puts in its own install URLs
InstallerStates == {"slack1"}

\* the state values a calling client sends in params.state
ClientStates == {"orig1", "orig2"}

\* the PKCE code challenges a calling client sends in params.codeChallenge
ClientChallenges == {"abc", "xyz"}

\* the code verifiers generatePkce yields (three concatenated uuids)
Verifiers == {"v1"}

ClientIds == {"c1", "c2"}

RedirectUriLists == {<<"https://a/cb">>, <<"https://b/cb", "https://a/cb">>}

\* OAuthClientInformationFull, as far as the provider reads it
Clients == [client_id : ClientIds, redirect_uris : RedirectUriLists]

AuthorizationParams == [state : ClientStates, codeChallenge : ClientChallenges]

\* the state query parameter of a callback request: anything a user-agent can send
QueryStates == States \cup InstallerStates

EmptyMap == [k \in {} |-> {}]

\* Map.set
MapSet(m, k, v) == [x \in DOMAIN m \cup {k} |-> IF x = k THEN v ELSE m[x]]

\* Map.delete
MapDelete(m, k) == [x \in DOMAIN m \ {k} |-> m[x]]

undefined == [kind |-> "undefined"]

VARIABLES
    clientsMap,     \* _clientsMap: client id -> client
    sessionStore,   \* _sessionStore: state -> SessionData
    usedStates,     \* the values crypto.randomBytes has yielded so far
    authz,          \* the authorize calls of this process, in call order
    cbs,            \* the handleCallback calls of this process, in call order
    saves,          \* the _saveClientsToFile calls of this process, in call order
    file,           \* registered_clients.json
    tokenStore,     \* the Token Store: session token -> token data
    epoch,          \* how many times the provider has been restarted
    calls,          \* how many requests and restarts there have been in this run
    exchanges,      \* the token requests of this process, in call order
    load,           \* the outcome of a _loadClientsFromFile call
    toolCalls,      \* the tool calls handled, in call order
    transport,      \* Server.ts: the shared transport variable (0: undefined)
    connections,    \* Server.ts: how many transports GET /sse has created
    posts,          \* Server.ts: the POST /message requests, in arrival order
    running         \* Server.ts: the process has not exited

\* the state of the MCP server process (Server.ts)
serverVars == <<transport, connections, posts, running>>

vars == <<clientsMap, sessionStore, usedStates, authz, cbs, saves, file, tokenStore, epoch,
          calls, exchanges, load, toolCalls, serverVars>>

(* --------------------------- registry file ---------------------------- *)

\* JSON.stringify of the clients object: its key/value pairs
JSONstringify(obj) == {<<k, obj[k]>> : k \in DOMAIN obj}

\* JSON.parse of such a text
JSONparse(text) == [k \in {p[1] : p \in text} |-> (CHOOSE p \in text : p[1] = k)[2]]

FileAbsent == [kind |-> "absent", text |-> {}]

\* the file after open(path, 'w'): truncated to length 0
FileTruncated == [kind |-> "empty", text |-> {}]

\* The file after one writer has written data at offset 0.  A writer whose
\* data is shorter than what another writer has put there since the
\* truncation leaves the tail of the longer text behind: not JSON any more.
FileWritten(f, data) ==
    IF f.kind \in {"json", "garbled"} /\ Cardinality(f.text) > Cardinality(data)
    THEN [kind |-> "garbled", text |-> f.text]
    ELSE [kind |-> "json", text |-> data]

\* clientsStore.getClient
getClient(clientId) ==
    IF clientId \in DOMAIN clientsMap THEN clientsMap[clientId] ELSE undefined

\* clientsStore.registerClient with the synchronous part of _saveClientsToFile:
\* the map is updated, the clients object is built and stringified, and
\* fs.writeFile is started.
registerClient(client) ==
    /\ calls < MaxCalls
    /\ calls' = calls + 1
    /\ clientsMap' = MapSet(clientsMap, client.client_id, client)
    /\ saves' = Append(saves, [data |-> JSONstringify(clientsMap'), pc |-> "open",
                                returned |-> client, logged |-> FALSE])
    /\ UNCHANGED <<sessionStore, usedStates, authz, cbs, file, tokenStore, epoch, exchanges,
                 load, toolCalls, serverVars>>

\* fs.writeFile opens the file for writing, which truncates it
SaveOpen(w) ==
    /\ saves[w].pc = "open"
    /\ file' = FileTruncated
    /\ saves' = [saves EXCEPT ![w].pc = "write"]
    /\ UNCHANGED <<clientsMap, sessionStore, usedStates, authz, cbs, tokenStore, epoch, calls, exchanges,
                 load, toolCalls, serverVars>>

\* fs.writeFile writes the text and resolves; _saveClientsToFile logs and returns
SaveWrite(w) ==
    /\ saves[w].pc = "write"
    /\ file' = FileWritten(file, saves[w].data)
    /\ saves' = [saves EXCEPT ![w].pc = "done"]
    /\ UNCHANGED <<clientsMap, sessionStore, usedStates, authz, cbs, tokenStore, epoch, calls, exchanges,
                 load, toolCalls, serverVars>>

\* a failed write that also takes the registration back (mutation of SaveFail)
SaveFailRollback(w) ==
    /\ saves[w].pc \in {"open", "write"}
    /\ saves' = [saves EXCEPT ![w].pc = "failed", ![w].logged = TRUE]
    /\ clientsMap' = MapDelete(clientsMap, saves[w].returned.client_id)
    /\ UNCHANGED <<sessionStore, usedStates, authz, cbs, file, tokenStore, epoch, calls, exchanges,
                 load, toolCalls, serverVars>>

\* fs.writeFile rejects (open or write error): _saveClientsToFile logs and
\* rethrows, registerClient's catch handler logs. The file stays as it is.
SaveFail(w) ==
    /\ saves[w].pc \in {"open", "write"}
    /\ saves' = [saves EXCEPT ![w].pc = "failed", ![w].logged = TRUE]
    /\ UNCHANGED <<clientsMap, sessionStore, usedStates, authz, cbs, file, tokenStore, epoch, calls, exchanges,
                 load, toolCalls, serverVars>>

\* The process ends and a new SlackAuthProvider is constructed over the same
\* file. The constructor creates empty maps and does not read the file.
Restart ==
    /\ calls < MaxCalls
    /\ calls' = calls + 1
    /\ epoch' = epoch + 1
    /\ clientsMap' = EmptyMap
    /\ sessionStore' = EmptyMap
    /\ authz' = <<>>
    /\ cbs' = <<>>
    /\ saves' = <<>>
    /\ exchanges' = <<>>
    /\ UNCHANGED <<usedStates, file, tokenStore, load, toolCalls, serverVars>>

(* ------------------------------ authorize ----------------------------- *)

\* crypto.randomBytes(32).toString('hex'): a value not yielded before. Which
\* one is immaterial (the values are interchangeable), so the unused value of
\* the lowest index stands for all of them.
randomBytesHex ==
    {StateNames[i] : i \in {n \in 1..MaxStates :
        /\ StateNames[n] \notin usedStates
        /\ \A m \in 1..(n - 1) : StateNames[m] \in usedStates}}

\* the code verifiers a calling client holds
ClientVerifiers == {"cv1", "cv2"}

\* base64url(SHA-256(verifier)): a string, different for different verifiers;
\* "abc" is the challenge of the client verifier "cv1"
S256(verifier) ==
    CASE verifier = "cv1" -> "abc"
      [] verifier = "cv2" -> "xyz"
      [] OTHER -> "h-v1"

\* generatePkce: the verifier and its S256 challenge
generatePkce == {[verifier |-> v, challenge |-> S256(v)] : v \in Verifiers}

\* the session keyed by the calling client's own state (mutation of SessionKey)
SessionKeyClientState(state, params) == params.state

\* the key authorize stores the session data under
SessionKey(state, params) == state

\* _storeSessionData: throws on an empty state, else Map.set
_storeSessionData(state, data) ==
    IF state = ""
    THEN [threw |-> TRUE, store |-> sessionStore]
    ELSE [threw |-> FALSE, store |-> MapSet(sessionStore, state, data)]

\* _getSessionData
_getSessionData(state) ==
    IF state \in DOMAIN sessionStore THEN sessionStore[state] ELSE undefined

\* _clearSessionData
_clearSessionData(state) == MapDelete(sessionStore, state)

NoUrl == [scopes |-> {}, redirectUri |-> "", state |-> ""]

\* no generateInstallUrl call made yet
NoOptions == [scopes |-> {}, redirectUri |-> "", metadata |-> ""]

\* the last registered URI instead of the first (mutation of redirectUriOf)
redirectUriLast(client) == client.redirect_uris[Len(client.redirect_uris)]

\* the redirect URI authorize uses: the client's first registered one
redirectUriOf(client) == client.redirect_uris[1]

\* options that pass the client's own state along (mutation of installUrlOptions)
installUrlOptionsWithClientState(redirectUri, params) ==
    [scopes |-> {"chat:write"}, redirectUri |-> redirectUri, metadata |-> params.state]

\* the options authorize gives generateInstallUrl: scopes and redirect URI,
\* nothing else (no metadata)
installUrlOptions(redirectUri, params) ==
    [scopes |-> {"chat:write"}, redirectUri |-> redirectUri, metadata |-> ""]

\* authorize up to its first await: redirect URI, PKCE pair, state, session
\* data, _storeSessionData
authorizeBegin(client, params) ==
    /\ calls < MaxCalls
    /\ calls' = calls + 1
    /\ client = getClient(client.client_id)
    /\ \E state \in randomBytesHex, pkce \in generatePkce :
         LET redirectUri == redirectUriOf(client)
             sessionData == [clientId |-> client.client_id,
                             state |-> state,
                             codeVerifier |-> pkce.verifier,
                             redirectUri |-> redirectUri,
                             originalState |-> params.state,
                             clientCodeChallenge |-> params.codeChallenge,
                             clientCodeChallengeMethod |-> "S256"]
             stored == _storeSessionData(SessionKey(state, params), sessionData)
         IN  /\ usedStates' = usedStates \cup {state}
             /\ sessionStore' = stored.store
             /\ authz' = Append(authz,
                    [client |-> client, params |-> params, state |-> state,
                     redirectUri |-> redirectUri,
                     pc |-> IF stored.threw THEN "done" ELSE "url",
                     urlOptions |-> NoOptions,
                     authUrl |-> NoUrl,
                     res |-> IF stored.threw THEN "status500" ELSE "pending"])
    /\ UNCHANGED <<clientsMap, cbs, saves, file, tokenStore, epoch, exchanges, load, toolCalls, serverVars>>

\* the installer's generateInstallUrl resolves: the URL carries the scopes and
\* redirect URI it was given and a state parameter of the installer's own
\* making; authorize redirects the user-agent to it
authorizeRedirect(i) ==
    /\ authz[i].pc = "url"
    /\ \E slackState \in InstallerStates :
         LET options == installUrlOptions(authz[i].redirectUri, authz[i].params)
         IN  authz' = [authz EXCEPT ![i].pc = "done",
                                    ![i].urlOptions = options,
                                    ![i].authUrl = [scopes |-> options.scopes,
                                                    redirectUri |-> options.redirectUri,
                                                    state |-> slackState],
                                    ![i].res = "redirect"]
    /\ UNCHANGED <<clientsMap, sessionStore, usedStates, cbs, saves, file, tokenStore, epoch, calls, exchanges,
                 load, toolCalls, serverVars>>

\* generateInstallUrl rejects: the catch block answers with status 500
authorizeError(i) ==
    /\ authz[i].pc = "url"
    /\ authz' = [authz EXCEPT ![i].pc = "done",
                              ![i].urlOptions = installUrlOptions(authz[i].redirectUri,
                                                                  authz[i].params),
                              ![i].res = "status500"]
    /\ UNCHANGED <<clientsMap, sessionStore, usedStates, cbs, saves, file, tokenStore, epoch, calls, exchanges,
                 load, toolCalls, serverVars>>

(* ---------------------------- handleCallback -------------------------- *)

Pending == [kind |-> "pending", redirectUrl |-> "", success |-> FALSE, error |-> ""]

\* the function ends without a return statement
ReturnedUndefined == [kind |-> "undefined", redirectUrl |-> "", success |-> FALSE, error |-> ""]

InvalidStateResult ==
    [kind |-> "value", redirectUrl |-> "", success |-> FALSE, error |-> "Invalid state parameter"]

FailedResult ==
    [kind |-> "value", redirectUrl |-> "", success |-> FALSE, error |-> "Failed to handle callback"]

\* a lookup test that lets every callback through (mutation of SessionMissing)
SessionNeverMissing(sessionData) == FALSE

\* the test handleCallback makes on the looked-up session data
SessionMissing(sessionData) == sessionData = undefined

\* handleCallback up to its await: look the session up; return the failure
\* result if there is none, else call the installer's handleCallback
handleCallbackBegin(state) ==
    /\ calls < MaxCalls
    /\ calls' = calls + 1
    /\ LET sessionData == _getSessionData(state)
       IN  cbs' = Append(cbs,
                 IF SessionMissing(sessionData)
                 THEN [state |-> state, pc |-> "done", exchanged |-> FALSE,
                       upstream |-> "none", result |-> InvalidStateResult]
                 ELSE [state |-> state, pc |-> "exchange", exchanged |-> TRUE,
                       upstream |-> "none", result |-> Pending])
    /\ UNCHANGED <<clientsMap, sessionStore, usedStates, authz, saves, file, tokenStore, epoch, exchanges,
                 load, toolCalls, serverVars>>

\* the installer's handleCallback resolves (its success callback is empty):
\* handleCallback falls off its end
handleCallbackResolved(j) ==
    /\ cbs[j].pc = "exchange"
    /\ cbs' = [cbs EXCEPT ![j].pc = "done", ![j].upstream = "ok",
                          ![j].result = ReturnedUndefined]
    /\ UNCHANGED <<clientsMap, sessionStore, usedStates, authz, saves, file, tokenStore, epoch, calls, exchanges,
                 load, toolCalls, serverVars>>

\* the installer's handleCallback raises: the catch block returns the failure result
handleCallbackRaised(j) ==
    /\ cbs[j].pc = "exchange"
    /\ cbs' = [cbs EXCEPT ![j].pc = "done", ![j].upstream = "raise",
                          ![j].result = FailedResult]
    /\ UNCHANGED <<clientsMap, sessionStore, usedStates, authz, saves, file, tokenStore, epoch, calls, exchanges,
                 load, toolCalls, serverVars>>

(* ------------------------------ the loader --------------------------- *)

NotLoaded == [pc |-> "idle", threw |-> FALSE, logged |-> "none"]

\* the client registries a provider can hold
Registries ==
    UNION {{[c \in ids |-> [client_id |-> c, redirect_uris |-> uris[c]]] :
                uris \in [ids -> RedirectUriLists]} : ids \in SUBSET ClientIds}

\* what registered_clients.json can hold when the loader runs: nothing, the
\* text of a save, a truncated file, the remains of overlapping writes
LoadFiles ==
    {FileAbsent, FileTruncated}
        \cup {[kind |-> k, text |-> JSONstringify(m)] :
                k \in {"json", "garbled"}, m \in Registries \ {EmptyMap}}

\* _loadClientsFromFile. fs.access fails on an absent file: the 'File not
\* found' rejection is caught and passed over in silence. JSON.parse throws on
\* a file that is not JSON: the catch block logs the error. Otherwise the map
\* is cleared and filled from the parsed object. The method returns normally
\* in all three cases.
_loadClientsFromFile ==
    /\ load.pc = "idle"
    /\ IF file.kind = "absent"
       THEN /\ load' = [pc |-> "done", threw |-> FALSE,
                        logged |-> "No saved clients file found. Starting with empty clients list."]
            /\ UNCHANGED clientsMap
       ELSE IF file.kind # "json"
       THEN /\ load' = [pc |-> "done", threw |-> FALSE,
                        logged |-> "Error loading clients from file:"]
            /\ UNCHANGED clientsMap
       ELSE /\ load' = [pc |-> "done", threw |-> FALSE, logged |-> "Loaded"]
            /\ clientsMap' = JSONparse(file.text)
    /\ UNCHANGED <<sessionStore, usedStates, authz, cbs, saves, file, tokenStore, epoch,
                   calls, exchanges, toolCalls, serverVars>>

(* -------------------------------- tools ------------------------------- *)

ToolNames == {"getUserDetails", "getSlackChannels", "other"}

\* request.params.context?.token: absent ("") or a session token
SessionTokens == {"", "t1", "t2"}

\* request.params.arguments?.tenantId: absent ("") or a tenant id
TenantIds == {"", "Bogdan", "Nobody"}

\* the contents the Token Store can have when a tool is called
TokenStores == {EmptyMap, [t \in {"t1"} |-> [user |-> "u1"]]}

\* tokenStore.getToken
getToken(sessionToken) ==
    IF sessionToken \in DOMAIN tokenStore THEN tokenStore[sessionToken] ELSE undefined

exampleTenantConfiguration ==
    {[tenantId |-> "Bogdan", slackToken |-> ""], [tenantId |-> "Omer", slackToken |-> ""]}

\* what slackClient.conversations.list can do
SlackListOutcomes == {"rejects", "noChannels", "channels"}

ToolResult(text) == [kind |-> "result", text |-> text]

\* an error thrown out of the request handler: a protocol-level error
ToolThrows(message) == [kind |-> "protocolError", text |-> <<"", message>>]

\* getUserDetails whose errors leave the handler (mutation of getUserDetails)
getUserDetailsUncaught(sessionToken) ==
    IF sessionToken = ""
    THEN ToolThrows("No authentication token provided")
    ELSE IF getToken(sessionToken) = undefined
    THEN ToolThrows("Invalid or expired session token")
    ELSE ToolResult(<<"User Details:", "asdfasdf">>)

\* the getUserDetails branch: the errors thrown in the try block are caught
\* and returned as the tool's text
getUserDetails(sessionToken) ==
    IF sessionToken = ""
    THEN ToolResult(<<"Error getting user details: ", "No authentication token provided">>)
    ELSE IF getToken(sessionToken) = undefined
    THEN ToolResult(<<"Error getting user details: ", "Invalid or expired session token">>)
    ELSE ToolResult(<<"User Details:", "asdfasdf">>)

\* the getSlackChannels branch, for each thing the Slack API call can do
getSlackChannels(tenantId, slack) ==
    LET configs == {c \in exampleTenantConfiguration : c.tenantId = tenantId}
        slackToken == IF configs = {} THEN "" ELSE (CHOOSE c \in configs : TRUE).slackToken
    IN  IF tenantId = ""
        THEN ToolResult(<<"Error getting channels: ", "Tenant ID is required">>)
        ELSE IF slackToken = ""
        THEN ToolResult(<<"Error getting channels: ", "Slack token not found for tenant ID: ">>)
        ELSE IF slack = "rejects"
        THEN ToolResult(<<"Error getting channels: ", "Unknown error occurred">>)
        ELSE IF slack = "noChannels"
        THEN ToolResult(<<"Error getting channels: ", "No channels found">>)
        ELSE ToolResult(<<"channels", "">>)

\* the CallToolRequestSchema handler
callTool(name, tenantId, sessionToken, slack) ==
    /\ calls < MaxCalls
    /\ calls' = calls + 1
    /\ toolCalls' = Append(toolCalls,
            [name |-> name, tenantId |-> tenantId, token |-> sessionToken,
             result |-> IF name = "getSlackChannels" THEN getSlackChannels(tenantId, slack)
                        ELSE IF name = "getUserDetails" THEN getUserDetails(sessionToken)
                        ELSE ToolThrows("Unknown tool: ")])
    /\ UNCHANGED <<clientsMap, sessionStore, usedStates, authz, cbs, saves, file, tokenStore,
                   epoch, exchanges, load, serverVars>>

(* ------------------------------ Server.ts ----------------------------- *)

\* the bodies a POST /message can carry: a message with params, a message
\* without, text that is not JSON
PostBodies == {"withParams", "noParams", "notJSON"}

\* the shared variable kept at its first transport (mutation of assignTransport)
assignTransportOnce(current, created) == IF current = 0 THEN created ELSE current

\* transport = new SSEServerTransport("/message", res)
assignTransport(current, created) == created

\* GET /sse: a new transport replaces the shared one and the server is
\* connected to it
sseGet ==
    /\ running
    /\ calls < MaxCalls
    /\ calls' = calls + 1
    /\ connections' = connections + 1
    /\ transport' = assignTransport(transport, connections')
    /\ UNCHANGED <<clientsMap, sessionStore, usedStates, authz, cbs, saves, file, tokenStore,
                   epoch, exchanges, load, toolCalls, posts, running>>

\* POST /message arrives, sent by the client of connection sentFor (0 when
\* no connection was ever made); the handler awaits the raw body
postMessage(sentFor, body) ==
    /\ running
    /\ calls < MaxCalls
    /\ calls' = calls + 1
    /\ posts' = Append(posts, [sentFor |-> sentFor, body |-> body, pc |-> "rawBody",
                               handedTo |-> 0, outcome |-> "pending"])
    /\ UNCHANGED <<clientsMap, sessionStore, usedStates, authz, cbs, saves, file, tokenStore,
                   epoch, exchanges, load, toolCalls, transport, connections, running>>

\* the raw body is there: JSON.parse (throws on text that is not JSON),
\* params defaulted, then transport.handlePostMessage on the shared variable
\* as it is now (a TypeError when it is still undefined)
postHandle(k) ==
    /\ running
    /\ posts[k].pc = "rawBody"
    /\ posts' = [posts EXCEPT
            ![k].pc = "done",
            ![k].handedTo = IF posts[k].body = "notJSON" THEN 0 ELSE transport,
            ![k].outcome = IF posts[k].body = "notJSON" THEN "SyntaxError"
                           ELSE IF transport = 0 THEN "TypeError"
                           ELSE "handed"]
    /\ UNCHANGED <<clientsMap, sessionStore, usedStates, authz, cbs, saves, file, tokenStore,
                   epoch, calls, exchanges, load, toolCalls, transport, connections, running>>

\* server.onclose: cleanup, server.close(), process.exit(0)
onclose ==
    /\ running
    /\ connections > 0
    /\ running' = FALSE
    /\ UNCHANGED <<clientsMap, sessionStore, usedStates, authz, cbs, saves, file, tokenStore,
                   epoch, calls, exchanges, load, toolCalls, transport, connections, posts>>

(* ---------------------------- token requests ------------------------- *)

\* the authorization codes a token request can carry
AuthCodes == {"code1"}

NotImplemented == [kind |-> "threw", error |-> "Method not implemented."]

\* challengeForAuthorizationCode: a stub that throws
challengeForAuthorizationCode(client, authorizationCode) == NotImplemented

\* exchangeAuthorizationCode: a stub that throws
exchangeAuthorizationCode(client, authorizationCode) == NotImplemented

\* a token request of a registered client, with its code and code verifier:
\* the provider is asked for the code's challenge and for the exchange
tokenRequest(client, authorizationCode, verifier) ==
    /\ calls < MaxCalls
    /\ calls' = calls + 1
    /\ client = getClient(client.client_id)
    /\ exchanges' = Append(exchanges,
            [client |-> client, code |-> authorizationCode, verifier |-> verifier,
             challenge |-> challengeForAuthorizationCode(client, authorizationCode),
             exchange |-> exchangeAuthorizationCode(client, authorizationCode)])
    /\ UNCHANGED <<clientsMap, sessionStore, usedStates, authz, cbs, saves, file, tokenStore, epoch,
                 load, toolCalls, serverVars>>

(* --------------------------- specification ---------------------------- *)

Init ==
    /\ clientsMap = EmptyMap
    /\ sessionStore = EmptyMap
    /\ usedStates = {}
    /\ authz = <<>>
    /\ cbs = <<>>
    /\ saves = <<>>
    /\ file \in {FileAbsent}
    /\ tokenStore = EmptyMap
    /\ epoch = 0
    /\ calls = 0
    /\ exchanges = <<>>
    /\ load = NotLoaded
    /\ toolCalls = <<>>
    /\ transport = 0
    /\ connections = 0
    /\ posts = <<>>
    /\ running = TRUE

Next ==
    \/ \E client \in Clients : registerClient(client)
    \/ \E w \in DOMAIN saves : SaveOpen(w)
    \/ \E w \in DOMAIN saves : SaveWrite(w)
    \/ \E w \in DOMAIN saves : SaveFail(w)
    \/ Restart
    \/ \E client \in Clients, params \in AuthorizationParams : authorizeBegin(client, params)
    \/ \E i \in DOMAIN authz : authorizeRedirect(i)
    \/ \E i \in DOMAIN authz : authorizeError(i)
    \/ \E state \in QueryStates : handleCallbackBegin(state)
    \/ \E j \in DOMAIN cbs : handleCallbackResolved(j)
    \/ \E j \in DOMAIN cbs : handleCallbackRaised(j)
    \/ \E client \in Clients, code \in AuthCodes, verifier \in ClientVerifiers :
            tokenRequest(client, code, verifier)

Spec == Init /\ [][Next]_vars

\* The event loop runs every continuation that is ready: a started file write
\* is opened and written (or fails), a pending generateInstallUrl and a pending
\* installer handleCallback settle. Incoming requests and restarts are not
\* forced.
FairSpec ==
    /\ Spec
    /\ \A w \in 1..MaxCalls : WF_vars(w \in DOMAIN saves /\ (SaveOpen(w) \/ SaveWrite(w)))
    /\ \A i \in 1..MaxCalls : WF_vars(i \in DOMAIN authz /\ (authorizeRedirect(i) \/ authorizeError(i)))
    /\ \A j \in 1..MaxCalls : WF_vars(j \in DOMAIN cbs /\ (handleCallbackResolved(j) \/ handleCallbackRaised(j)))

\* The loader on its own: it is called on a provider holding any registry,
\* over any file.
LoadInit ==
    /\ clientsMap \in Registries
    /\ file \in LoadFiles
    /\ sessionStore = EmptyMap
    /\ usedStates = {}
    /\ authz = <<>>
    /\ cbs = <<>>
    /\ saves = <<>>
    /\ tokenStore = EmptyMap
    /\ epoch = 0
    /\ calls = 0
    /\ exchanges = <<>>
    /\ load = NotLoaded
    /\ toolCalls = <<>>
    /\ transport = 0
    /\ connections = 0
    /\ posts = <<>>
    /\ running = TRUE

LoadNext == _loadClientsFromFile

LoadSpec == LoadInit /\ [][LoadNext]_vars

\* The tool handler on its own, over any contents of the Token Store.
ToolInit ==
    /\ tokenStore \in TokenStores
    /\ clientsMap = EmptyMap
    /\ file = FileAbsent
    /\ sessionStore = EmptyMap
    /\ usedStates = {}
    /\ authz = <<>>
    /\ cbs = <<>>
    /\ saves = <<>>
    /\ epoch = 0
    /\ calls = 0
    /\ exchanges = <<>>
    /\ load = NotLoaded
    /\ toolCalls = <<>>
    /\ transport = 0
    /\ connections = 0
    /\ posts = <<>>
    /\ running = TRUE

ToolNext ==
    \E name \in ToolNames, tenantId \in TenantIds, sessionToken \in SessionTokens,
       slack \in SlackListOutcomes : callTool(name, tenantId, sessionToken, slack)

ToolSpec == ToolInit /\ [][ToolNext]_vars

\* The MCP server process (Server.ts), which shares nothing with the provider.
ServerNext ==
    \/ sseGet
    \/ \E sentFor \in {c \in 0..connections : c = 0 <=> connections = 0},
          body \in PostBodies : postMessage(sentFor, body)
    \/ \E k \in DOMAIN posts : postHandle(k)
    \/ onclose

ServerSpec == Init /\ [][ServerNext]_vars

(* ------------------------------- claims ------------------------------- *)

\* the handleCallback call a step starts, if it starts one
StartsCallback == Len(cbs') = Len(cbs) + 1

\* the authorize call a step starts, if it starts one
StartsAuthorize == Len(authz') = Len(authz) + 1

\* C1: a handleCallback whose state is not a key of the session store returns
\* the 'Invalid state parameter' failure at once, without calling the
\* installer's handleCallback, carrying no code (empty redirectUrl), and
\* leaving the session store and the token store as they were.
C1_UnknownStateFails ==
    [][(StartsCallback /\ cbs'[Len(cbs')].state \notin DOMAIN sessionStore)
        => /\ cbs'[Len(cbs')].pc = "done"
           /\ cbs'[Len(cbs')].result = InvalidStateResult
           /\ ~cbs'[Len(cbs')].exchanged
           /\ sessionStore' = sessionStore
           /\ tokenStore' = tokenStore]_vars

C1_Witness ==
    \E j \in DOMAIN cbs :
        /\ cbs[j].state \notin DOMAIN sessionStore
        /\ cbs[j].pc = "done"
        /\ cbs[j].result = InvalidStateResult
        /\ sessionStore # EmptyMap

\* C2: when a handleCallback that found the session for its state finishes
\* (upstream success or failure), that state is no longer in the session
\* store, and a later handleCallback with the same state gets the
\* unknown-state failure.
C2_ConsumedExactlyOnce ==
    [][/\ \A j \in DOMAIN cbs \cap DOMAIN cbs' :
            (cbs[j].pc = "exchange" /\ cbs'[j].pc = "done")
                => cbs[j].state \notin DOMAIN sessionStore'
       /\ (StartsCallback /\ \E j \in DOMAIN cbs :
                /\ cbs[j].pc = "done"
                /\ cbs[j].exchanged
                /\ cbs[j].state = cbs'[Len(cbs')].state)
            => cbs'[Len(cbs')].result = InvalidStateResult]_vars

\* C3: the state parameter of the authorization URL authorize redirects to is
\* the internal state the session was stored under, and a handleCallback
\* carrying the URL's state of a finished authorize call finds a session.
C3_UpstreamStateIsInternalState ==
    \A i \in DOMAIN authz :
        authz[i].res = "redirect"
            => /\ authz[i].authUrl.state = authz[i].state
               /\ \A j \in DOMAIN cbs :
                    cbs[j].state = authz[i].authUrl.state => cbs[j].exchanged

\* C4: a handleCallback that found its session and whose upstream exchange
\* succeeded returns a success result carrying a code, has put a record in
\* the Token Store, and has removed the session from the session store.
C4_SuccessMintsCodeAndClears ==
    \A j \in DOMAIN cbs :
        (cbs[j].pc = "done" /\ cbs[j].upstream = "ok")
            => /\ cbs[j].result.kind = "value"
               /\ cbs[j].result.success
               /\ cbs[j].result.redirectUrl # ""
               /\ tokenStore # EmptyMap
               /\ cbs[j].state \notin DOMAIN sessionStore

\* C5: a handleCallback that found its session and whose upstream exchange
\* raised returns a structured failure result, and the session of its state
\* is no longer in the session store.
C5_FailureClearsSession ==
    \A j \in DOMAIN cbs :
        (cbs[j].pc = "done" /\ cbs[j].upstream = "raise")
            => /\ cbs[j].result.kind = "value"
               /\ ~cbs[j].result.success
               /\ cbs[j].result.error # ""
               /\ cbs[j].state \notin DOMAIN sessionStore

\* C6: an authorize call adds exactly one session, under a key that was not
\* in the store and that no earlier authorize call used, and changes no
\* session already there; the step that issues its redirect leaves the store
\* alone, with that session in it; the calls' keys are pairwise distinct.
C6_OneFreshSessionPerAuthorize ==
    /\ [][/\ StartsAuthorize
            => \E k \in DOMAIN sessionStore' \ DOMAIN sessionStore :
                /\ DOMAIN sessionStore' = DOMAIN sessionStore \cup {k}
                /\ k \notin usedStates
                /\ \A i \in DOMAIN authz : k # authz[i].state
                /\ \A s \in DOMAIN sessionStore : sessionStore'[s] = sessionStore[s]
          /\ \A i \in DOMAIN authz \cap DOMAIN authz' :
                (authz[i].res = "pending" /\ authz'[i].res = "redirect")
                    => /\ sessionStore' = sessionStore
                       /\ authz[i].state \in DOMAIN sessionStore
                       /\ sessionStore[authz[i].state].clientId = authz[i].client.client_id]_vars
    /\ [](\A i, j \in DOMAIN authz : i # j => authz[i].state # authz[j].state)

C6_Witness ==
    \E i, j \in DOMAIN authz :
        /\ i # j
        /\ authz[i].res = "redirect"
        /\ authz[j].res = "redirect"
        /\ {authz[i].state, authz[j].state} \subseteq DOMAIN sessionStore
        /\ authz[i].params.state = authz[j].params.state

\* C7: an authorize call that ends in the status-500 response has issued no
\* redirect and has left no session of its own in the session store.
C7_FailedAuthorizeLeavesNoSession ==
    \A i \in DOMAIN authz :
        authz[i].res = "status500"
            => /\ authz[i].authUrl = NoUrl
               /\ authz[i].state \notin DOMAIN sessionStore

\* C8: a session that an authorize call stored and issued its redirect for
\* is eventually removed from the session store.
C8_SessionsEventuallyRemoved ==
    \A s \in States :
        []((/\ s \in DOMAIN sessionStore
            /\ \E i \in DOMAIN authz : authz[i].state = s /\ authz[i].res = "redirect")
                => <>(s \notin DOMAIN sessionStore))

\* C9: in one provider process, once the file writes of N registerClient
\* calls for N distinct client ids have all finished, the in-memory registry
\* and the registry file both hold exactly those N records.
C9_NoLostRegistration ==
    (/\ epoch = 0
     /\ saves # <<>>
     /\ \A w \in DOMAIN saves : saves[w].pc = "done"
     /\ Cardinality(DOMAIN clientsMap) = Len(saves))
        => /\ file.kind = "json"
           /\ JSONparse(file.text) = clientsMap

\* C10: a provider started over a registry file that holds complete JSON
\* answers getClient, for every client id in the file, with the record the
\* file holds for it (before any new registration).
C10_RegistrySurvivesRestart ==
    (epoch > 0 /\ saves = <<>> /\ file.kind = "json")
        => \A c \in DOMAIN JSONparse(file.text) : getClient(c) = JSONparse(file.text)[c]

\* the registerClient call a step makes, if it makes one
StartsSave == Len(saves') = Len(saves) + 1

\* C11: every step that changes the registry file replaces it with the
\* complete text of one of the saves: the file never holds anything but
\* complete previous or complete new contents.
C11_AtomicReplace ==
    [][file' # file
        => \E w \in DOMAIN saves : file' = [kind |-> "json", text |-> saves[w].data]]_vars

\* C12: registerClient returns its client and puts it in the in-memory
\* registry; no step of the file write, failure included, changes the
\* registry or what was returned, a failure is logged, and getClient answers
\* with the returned client for as long as its id is not registered again.
C12_RegistrationIndependentOfWrite ==
    /\ [][/\ StartsSave
            => /\ saves'[Len(saves')].returned.client_id \in DOMAIN clientsMap'
               /\ clientsMap'[saves'[Len(saves')].returned.client_id]
                    = saves'[Len(saves')].returned
          /\ \A w \in DOMAIN saves \cap DOMAIN saves' :
                saves'[w].pc # saves[w].pc
                    => /\ clientsMap' = clientsMap
                       /\ saves'[w].returned = saves[w].returned
                       /\ (saves'[w].pc = "failed" => saves'[w].logged)]_vars
    /\ [](\A w \in DOMAIN saves :
            (\A x \in DOMAIN saves :
                x > w => saves[x].returned.client_id # saves[w].returned.client_id)
                => getClient(saves[w].returned.client_id) = saves[w].returned)

C12_Witness ==
    \E w \in DOMAIN saves :
        /\ saves[w].pc = "failed"
        /\ saves[w].logged
        /\ file.kind = "empty"
        /\ getClient(saves[w].returned.client_id) = saves[w].returned

\* C14: within one provider process, no step changes or removes a record of
\* the in-memory registry.
C14_RegisteredClientImmutable ==
    [][epoch' = epoch
        => \A c \in DOMAIN clientsMap :
            c \in DOMAIN clientsMap' /\ clientsMap'[c] = clientsMap[c]]_vars

\* C18: every stored session sits under the key equal to its own state field
\* and holds the client id, the first registered redirect URI, the state and
\* the code challenge of the authorize call that made it; no step changes a
\* session that stays in the store.
C18_SessionFieldsCapturedAndStable ==
    /\ [](\A s \in DOMAIN sessionStore :
            /\ sessionStore[s].state = s
            /\ \E i \in DOMAIN authz :
                /\ authz[i].state = s
                /\ sessionStore[s].clientId = authz[i].client.client_id
                /\ sessionStore[s].redirectUri = authz[i].client.redirect_uris[1]
                /\ sessionStore[s].originalState = authz[i].params.state
                /\ sessionStore[s].clientCodeChallenge = authz[i].params.codeChallenge)
    /\ [][\A s \in DOMAIN sessionStore \cap DOMAIN sessionStore' :
            sessionStore'[s] = sessionStore[s]]_vars

C18_Witness ==
    \E s \in DOMAIN sessionStore, j \in DOMAIN cbs :
        /\ cbs[j].state = s
        /\ cbs[j].pc = "done"
        /\ sessionStore[s].redirectUri = "https://b/cb"
        /\ sessionStore[s].originalState = "orig2"

\* C19: the options authorize gives generateInstallUrl are the same for any
\* two calls by the same client, whatever their params, and carry neither
\* the client's state nor its code challenge; nor does the URL redirected to.
C19_UpstreamRequestIndependentOfClientState ==
    /\ \A i, j \in DOMAIN authz :
        (/\ authz[i].client = authz[j].client
         /\ authz[i].urlOptions # NoOptions
         /\ authz[j].urlOptions # NoOptions)
            => authz[i].urlOptions = authz[j].urlOptions
    /\ \A i \in DOMAIN authz :
        LET sent == authz[i].urlOptions.scopes
                        \cup {authz[i].urlOptions.redirectUri, authz[i].urlOptions.metadata,
                              authz[i].authUrl.redirectUri, authz[i].authUrl.state}
        IN  authz[i].params.state \notin sent /\ authz[i].params.codeChallenge \notin sent

C19_Witness ==
    \E i, j \in DOMAIN authz :
        /\ authz[i].client = authz[j].client
        /\ authz[i].params.state # authz[j].params.state
        /\ authz[i].params.codeChallenge # authz[j].params.codeChallenge
        /\ authz[i].res = "redirect"
        /\ authz[j].res = "redirect"
        /\ authz[i].urlOptions = authz[j].urlOptions

\* the authorization codes handed out so far: what successful callback
\* results carry
IssuedCodes ==
    {cbs[j].result.redirectUrl : j \in {k \in DOMAIN cbs : cbs[k].result.success}}

\* C15: the exchange of a code that was never issued fails with
\* InvalidGrantError, and tokens are returned only for an issued code.
C15_UnknownCodeIsInvalidGrant ==
    \A x \in DOMAIN exchanges :
        /\ exchanges[x].exchange.kind = "tokens" => exchanges[x].code \in IssuedCodes
        /\ exchanges[x].code \notin IssuedCodes
            => exchanges[x].exchange.error = "InvalidGrantError"

\* C16: the exchange for a client whose verifier does not hash to the code
\* challenge captured in that client's session fails with
\* PKCEValidationError and issues no token.
C16_WrongVerifierIsPKCEError ==
    \A x \in DOMAIN exchanges :
        (\E s \in DOMAIN sessionStore :
            /\ sessionStore[s].clientId = exchanges[x].client.client_id
            /\ S256(exchanges[x].verifier) # sessionStore[s].clientCodeChallenge)
            => /\ exchanges[x].exchange.kind = "threw"
               /\ exchanges[x].exchange.error = "PKCEValidationError"
               /\ tokenStore = EmptyMap

\* C13: a load over a file that exists but is not parseable does not
\* complete normally: it ends in a thrown, fatal error.
C13_MalformedFileIsFatal ==
    (load.pc = "done" /\ file.kind \in {"empty", "garbled"}) => load.threw

\* C17: every call of getUserDetails or getSlackChannels returns an ordinary
\* tool result, whatever its arguments and token; getUserDetails without a
\* token, or with a token the Token Store does not know, returns a result
\* whose text is the error message naming the failure.
C17_KnownToolsNeverRaise ==
    \A t \in DOMAIN toolCalls :
        LET call == toolCalls[t]
        IN  /\ call.name \in {"getUserDetails", "getSlackChannels"}
                => call.result.kind = "result"
            /\ (call.name = "getUserDetails" /\ call.token = "")
                => call.result.text
                    = <<"Error getting user details: ", "No authentication token provided">>
            /\ (call.name = "getUserDetails" /\ call.token # ""
                    /\ call.token \notin DOMAIN tokenStore)
                => call.result.text
                    = <<"Error getting user details: ", "Invalid or expired session token">>

C17_Witness ==
    \E t, u, v \in DOMAIN toolCalls :
        /\ toolCalls[t].name = "getUserDetails"
        /\ toolCalls[t].token = "t2"
        /\ tokenStore # EmptyMap
        /\ toolCalls[t].result.kind = "result"
        /\ toolCalls[u].name = "getUserDetails"
        /\ toolCalls[u].token = ""
        /\ toolCalls[v].name = "getSlackChannels"
        /\ toolCalls[v].result.kind = "result"

\* C20: each POST /message whose body parses is handed to the transport of
\* the most recent GET /sse at the time it is handled, whichever connection
\* it was sent for; when no GET /sse has happened yet it is handed to none
\* (the call on the undefined variable throws).
C20_PostGoesToLatestTransport ==
    [][\A k \in DOMAIN posts :
        (posts[k].pc = "rawBody" /\ posts'[k].pc = "done" /\ posts[k].body # "notJSON")
            => /\ posts'[k].handedTo = connections
               /\ connections = 0 => posts'[k].outcome = "TypeError"
               /\ connections > 0 => posts'[k].outcome = "handed"]_vars

C20_Witness ==
    \E k \in DOMAIN posts :
        /\ posts[k].sentFor > 0
        /\ posts[k].outcome = "handed"
        /\ posts[k].handedTo > posts[k].sentFor

====
